---- MODULE Spec2Model ----
(***************************************************************************)
(* Model of src/circle.ts: getLastSuccessfulBuildRevisionOnBranch, the     *)
(* sequential asynchronous find over the pipeline list, and the            *)
(* deduplication of a pipeline's workflows by name (shouldPreferWorkflow). *)
(*                                                                         *)
(* Two specifications share the definitions of the code:                   *)
(*   Spec      one invocation of getLastSuccessfulBuildRevisionOnBranch,   *)
(*             one action per continuation between two awaits;             *)
(*   EvalSpec  one call of the callback handed to find (lines 129-156),    *)
(*             with the deduplication loop run one iteration per step.     *)
(***************************************************************************)
EXTENDS Integers, Sequences, FiniteSets, TLC

VARIABLES
    env,          \* the process environment read by requireEnv
    pc,           \* position of the invocation (or of the callback)
    pipelines,    \* pipelineData.items
    idx,          \* position of `element` in find's for loop
    judged,       \* per pipeline: what the callback did with it
    requests,     \* the HTTP requests issued so far, in order
    inflight,     \* the HTTP requests issued and not yet settled
    result,       \* the value the invocation resolved with
    logged,       \* console.log was called by the catch block
    workflowData, \* workflowData.items of the callback under evaluation
    wi,           \* position of `workflow` in the deduplication loop
    workflowMap,  \* workflowMap, as the sequence of its values in insertion order
    verdict,      \* the callback's return value
    api           \* what the CircleCI API answers, where a specification fixes it

vars == <<env, pc, pipelines, idx, judged, requests, inflight, result, logged,
          workflowData, wi, workflowMap, verdict, api>>

-----------------------------------------------------------------------------
(* Bounds of the model *)

MaxPipelines == 3
MaxScanWorkflows == 2
MaxWorkflows == 3
MaxConcPipelines == 3

-----------------------------------------------------------------------------
(* Data *)

CirclePipelineState == {"created", "errored", "setup-pending", "setup", "pending"}

CircleWorkflowStatus ==
    {"success", "running", "not_run", "failed", "error", "failing",
     "on_hold", "canceled", "unauthorized"}

\* a status string the API could send that the enum does not list (and that
\* names no inherited member of the statusPriority object literal, so that the
\* lookup yields undefined)
UnlistedStatuses == {"queued"}

WorkflowStatuses == CircleWorkflowStatus \cup UnlistedStatuses

\* status strings outside the enum that name a member every object literal
\* inherits: statusPriority[status] is then that member, not undefined
InheritedMembers == {"constructor", "toString"}

\* any status string a response can carry, the declared type set aside
UntypedStatuses == WorkflowStatuses \cup InheritedMembers

WorkflowNames == {"build", "test"}

Undefined == "undefined"

\* the promise of the invocation before it settles
Unsettled == "unsettled"

\* vcs.revision of the pipeline at each list position
Revisions == <<"sha-1", "sha-2", "sha-3", "sha-4", "sha-5", "sha-6">>

CirclePipelineItem(i, state) ==
    [id |-> i, state |-> state, vcs |-> [revision |-> Revisions[i]]]

CircleWorkflowItem(i, name, status) ==
    [id |-> i, name |-> name, status |-> status]

\* every pipelineData.items of at most n pipelines
PipelineLists(n) ==
    UNION { { [i \in 1..k |-> CirclePipelineItem(i, f[i])] :
              f \in [1..k -> CirclePipelineState] } : k \in 0..n }

\* a workflowData.items of k workflows: their names and statuses, then the list
WorkflowChoices(k) == [1..k -> WorkflowNames \X WorkflowStatuses]

UntypedWorkflowChoices(k) == [1..k -> WorkflowNames \X UntypedStatuses]

WorkflowList(k, f) == [i \in 1..k |-> CircleWorkflowItem(i, f[i][1], f[i][2])]

-----------------------------------------------------------------------------
(* shouldPreferWorkflow *)

\* on_hold and running entered the wrong way round
statusPrioritySwapped ==
    [s \in CircleWorkflowStatus |->
        CASE s = "success"      -> 5
          [] s = "on_hold"      -> 3
          [] s = "running"      -> 4
          [] s = "not_run"      -> 2
          [] s = "failed"       -> 1
          [] s = "error"        -> 1
          [] s = "failing"      -> 1
          [] s = "canceled"     -> 1
          [] s = "unauthorized" -> 0]

statusPriority ==
    [s \in CircleWorkflowStatus |->
        CASE s = "success"      -> 5
          [] s = "on_hold"      -> 4
          [] s = "running"      -> 3
          [] s = "not_run"      -> 2
          [] s = "failed"       -> 1
          [] s = "error"        -> 1
          [] s = "failing"      -> 1
          [] s = "canceled"     -> 1
          [] s = "unauthorized" -> 0]

\* statusPriority[status] || 0
PriorityOrZero(status) ==
    IF status \in DOMAIN statusPriority /\ statusPriority[status] # 0
    THEN statusPriority[status]
    ELSE 0

\* >= in place of >
shouldPreferWorkflowOrEqual(candidate, existing) ==
    PriorityOrZero(candidate.status) >= PriorityOrZero(existing.status)

\* the comparison the wrong way round
shouldPreferWorkflowReversed(candidate, existing) ==
    PriorityOrZero(candidate.status) < PriorityOrZero(existing.status)

\* an inherited member is truthy, so || 0 keeps it; compared with a number it
\* converts to NaN and > is false whichever side it stands on
IsNumber(status) == status \notin InheritedMembers

\* the latest workflow of a name always wins
shouldPreferWorkflowLatest(candidate, existing) == TRUE

shouldPreferWorkflow(candidate, existing) ==
    /\ IsNumber(candidate.status)
    /\ IsNumber(existing.status)
    /\ PriorityOrZero(candidate.status) > PriorityOrZero(existing.status)

-----------------------------------------------------------------------------
(* The Map<string, CircleWorkflowItem>: its values in key insertion order *)

MapHas(map, name) == \E i \in DOMAIN map : map[i].name = name

MapGet(map, name) == map[CHOOSE i \in DOMAIN map : map[i].name = name]

\* an array push in place of Map.set
MapSetPush(map, workflow) == Append(map, workflow)

\* new keys put in front of the older ones
MapSetPrepend(map, workflow) ==
    IF MapHas(map, workflow.name)
    THEN [i \in DOMAIN map |->
            IF map[i].name = workflow.name THEN workflow ELSE map[i]]
    ELSE <<workflow>> \o map

\* Map.set keeps the position of a key it already holds
MapSet(map, workflow) ==
    IF MapHas(map, workflow.name)
    THEN [i \in DOMAIN map |->
            IF map[i].name = workflow.name THEN workflow ELSE map[i]]
    ELSE Append(map, workflow)

\* one iteration of the loop over workflowData.items
DedupeIteration(map, workflow) ==
    IF ~MapHas(map, workflow.name)
    THEN MapSet(map, workflow)
    ELSE IF shouldPreferWorkflow(workflow, MapGet(map, workflow.name))
         THEN MapSet(map, workflow)
         ELSE map

RECURSIVE DedupeLoop(_, _)
DedupeLoop(map, items) ==
    IF items = <<>> THEN map
    ELSE DedupeLoop(DedupeIteration(map, Head(items)), Tail(items))

\* Array.from(workflowMap.values()) after the loop
uniqueWorkflows(items) == DedupeLoop(<<>>, items)

IsPassed(workflow) == workflow.status \in {"success", "on_hold"}

successfulWorkflows(unique) == SelectSeq(unique, IsPassed)

\* the length comparison without the > 0 guard
AllUniquePassedOrEmpty(unique) ==
    Len(successfulWorkflows(unique)) = Len(unique)

\* the callback's return value for an eligible pipeline
AllUniquePassed(unique) ==
    Len(successfulWorkflows(unique)) > 0
    /\ Len(successfulWorkflows(unique)) = Len(unique)

-----------------------------------------------------------------------------
(* Environment and build URL *)

\* a build URL as its host followed by its path segments
BuildUrls ==
    { <<"circleci.com", "gh", "org", "repo", "42">>,
      <<"circleci.com", "42">>,
      <<"circleci.com", "gh", "org", "42">>,
      <<"example.com", "gh", "org", "repo", "42">> }

EnvNames == {"CIRCLE_BUILD_URL", "CIRCLE_TOKEN"}

Envs ==
    UNION { { [n \in D |-> IF n = "CIRCLE_BUILD_URL" THEN url ELSE <<"token">>] :
              url \in BuildUrls } : D \in SUBSET EnvNames }

\* requireEnv(name) throws when the variable is not set
requireEnvThrows(e, name) == name \notin DOMAIN e

\* /circleci\.com\/(.*\/.*\/.*)\//.exec(buildUrl)?.[1]: the host, then at least
\* four slashes; the group is what lies between the first and the last of them.
\* <<>> stands for undefined.
slugAndBuildNumber(buildUrl) ==
    IF Head(buildUrl) = "circleci.com" /\ Len(buildUrl) >= 5
    THEN SubSeq(buildUrl, 2, Len(buildUrl) - 1)
    ELSE <<>>

PipelineRequest == [kind |-> "pipeline", id |-> 0]
WorkflowRequest(pipeline) == [kind |-> "workflow", id |-> pipeline.id]

-----------------------------------------------------------------------------
(* getLastSuccessfulBuildRevisionOnBranch: one invocation *)

Init ==
    /\ env \in Envs
    /\ pc = "start"
    /\ pipelines = <<>>
    /\ idx = 0
    /\ judged = <<>>
    /\ requests = <<>>
    /\ inflight = {}
    /\ result = Unsettled
    /\ logged = FALSE
    /\ workflowData = <<>>
    /\ wi = 0
    /\ workflowMap = <<>>
    /\ verdict = FALSE
    /\ api = <<>>

EvalVarsUnchanged == UNCHANGED <<workflowData, wi, workflowMap, verdict, api>>

\* a catch block that logs and rethrows
CaughtRethrown ==
    /\ logged' = TRUE
    /\ result' = Unsettled
    /\ pc' = "rejected"

\* the catch block: log, then fall off the end of the function, which resolves
\* the promise with undefined (a catch block that threw would end in "rejected")
Caught ==
    /\ logged' = TRUE
    /\ result' = Undefined
    /\ pc' = "done"

\* lastSuccessfulBuild?.vcs.revision
revisionOf(lastSuccessfulBuild) ==
    IF lastSuccessfulBuild = <<>> THEN Undefined
    ELSE lastSuccessfulBuild[1].vcs.revision

\* a find that returns the last element when the callback matched
FindReturnLast(items, i) == IF i \in DOMAIN items THEN <<items[Len(items)]>> ELSE <<>>

\* find's `return element` / `return null`, as a sequence of at most one element
FindReturn(items, i) == IF i \in DOMAIN items THEN <<items[i]>> ELSE <<>>

\* requireEnv throws for the build URL or for the token
StartMissingEnv ==
    /\ pc = "start"
    /\ \/ requireEnvThrows(env, "CIRCLE_BUILD_URL")
       \/ requireEnvThrows(env, "CIRCLE_TOKEN")
    /\ Caught
    /\ UNCHANGED <<inflight, env, pipelines, idx, judged, requests>>
    /\ EvalVarsUnchanged

\* the build URL yields no slug: the if is skipped, nothing is logged
StartNoSlug ==
    /\ pc = "start"
    /\ ~requireEnvThrows(env, "CIRCLE_BUILD_URL")
    /\ ~requireEnvThrows(env, "CIRCLE_TOKEN")
    /\ slugAndBuildNumber(env["CIRCLE_BUILD_URL"]) = <<>>
    /\ result' = Undefined
    /\ pc' = "done"
    /\ UNCHANGED <<inflight, env, pipelines, idx, judged, requests, logged>>
    /\ EvalVarsUnchanged

\* the request is issued whether or not the build URL yields a slug
StartRequestAnySlug ==
    /\ pc = "start"
    /\ ~requireEnvThrows(env, "CIRCLE_BUILD_URL")
    /\ ~requireEnvThrows(env, "CIRCLE_TOKEN")
    /\ requests' = Append(requests, PipelineRequest)
    /\ pc' = "awaitPipelines"
    /\ inflight' = inflight \cup {PipelineRequest}
    /\ UNCHANGED <<env, pipelines, idx, judged, result, logged>>
    /\ EvalVarsUnchanged

\* axios.get of the pipeline list is issued
StartRequest ==
    /\ pc = "start"
    /\ ~requireEnvThrows(env, "CIRCLE_BUILD_URL")
    /\ ~requireEnvThrows(env, "CIRCLE_TOKEN")
    /\ slugAndBuildNumber(env["CIRCLE_BUILD_URL"]) # <<>>
    /\ requests' = Append(requests, PipelineRequest)
    /\ pc' = "awaitPipelines"
    /\ inflight' = inflight \cup {PipelineRequest}
    /\ UNCHANGED <<env, pipelines, idx, judged, result, logged>>
    /\ EvalVarsUnchanged

\* the pipeline list arrives; find starts its loop
PipelinesResponse ==
    /\ pc = "awaitPipelines"
    /\ \E items \in PipelineLists(MaxPipelines) :
        /\ pipelines' = items
        /\ judged' = [i \in DOMAIN items |-> "unjudged"]
    /\ idx' = 1
    /\ pc' = "find"
    /\ inflight' = inflight \ {PipelineRequest}
    /\ UNCHANGED <<env, requests, result, logged>>
    /\ EvalVarsUnchanged

\* the pipeline request rejects, or its body has no items to iterate
PipelinesFailure ==
    /\ pc = "awaitPipelines"
    /\ Caught
    /\ inflight' = inflight \ {PipelineRequest}
    /\ UNCHANGED <<env, pipelines, idx, judged, requests>>
    /\ EvalVarsUnchanged

\* the for loop is over: find returns null
FindExhausted ==
    /\ pc = "find"
    /\ idx > Len(pipelines)
    /\ result' = revisionOf(FindReturn(pipelines, 0))
    /\ pc' = "done"
    /\ UNCHANGED <<inflight, env, pipelines, idx, judged, requests, logged>>
    /\ EvalVarsUnchanged

\* a loop that does not move on to the next element after a false
CallbackIneligibleStuck ==
    /\ pc = "find"
    /\ idx <= Len(pipelines)
    /\ pipelines[idx].state # "created"
    /\ judged' = [judged EXCEPT ![idx] = "notgreen"]
    /\ UNCHANGED <<inflight, env, pc, pipelines, idx, requests, result, logged>>
    /\ EvalVarsUnchanged

\* the callback's else branch: return false, the loop moves on
CallbackIneligible ==
    /\ pc = "find"
    /\ idx <= Len(pipelines)
    /\ pipelines[idx].state # "created"
    /\ judged' = [judged EXCEPT ![idx] = "notgreen"]
    /\ idx' = idx + 1
    /\ UNCHANGED <<inflight, env, pc, pipelines, requests, result, logged>>
    /\ EvalVarsUnchanged

\* a callback that fetches the workflows whatever the pipeline's state
CallbackFetchAnyState ==
    /\ pc = "find"
    /\ idx <= Len(pipelines)
    /\ requests' = Append(requests, WorkflowRequest(pipelines[idx]))
    /\ pc' = "awaitWorkflow"
    /\ inflight' = inflight \cup {WorkflowRequest(pipelines[idx])}
    /\ UNCHANGED <<env, pipelines, idx, judged, result, logged>>
    /\ EvalVarsUnchanged

\* a find that starts the callback of the next element without awaiting this one
CallbackFetchParallel ==
    /\ pc = "find"
    /\ idx <= Len(pipelines)
    /\ pipelines[idx].state = "created"
    /\ LET issued == { pipelines[i] : i \in { idx, idx + 1 } \cap DOMAIN pipelines }
       IN /\ requests' = IF idx < Len(pipelines)
                         THEN requests \o << WorkflowRequest(pipelines[idx]),
                                            WorkflowRequest(pipelines[idx + 1]) >>
                         ELSE Append(requests, WorkflowRequest(pipelines[idx]))
          /\ inflight' = inflight \cup { WorkflowRequest(q) : q \in issued }
    /\ pc' = "awaitWorkflow"
    /\ UNCHANGED <<env, pipelines, idx, judged, result, logged>>
    /\ EvalVarsUnchanged

\* the callback issues axios.get for the pipeline's workflows
CallbackFetch ==
    /\ pc = "find"
    /\ idx <= Len(pipelines)
    /\ pipelines[idx].state = "created"
    /\ requests' = Append(requests, WorkflowRequest(pipelines[idx]))
    /\ pc' = "awaitWorkflow"
    /\ inflight' = inflight \cup {WorkflowRequest(pipelines[idx])}
    /\ UNCHANGED <<env, pipelines, idx, judged, result, logged>>
    /\ EvalVarsUnchanged

\* a find that remembers the match and keeps iterating
WorkflowResponseGreenNoReturn ==
    /\ pc = "awaitWorkflow"
    /\ \E k \in 0..MaxScanWorkflows : \E f \in WorkflowChoices(k) :
        AllUniquePassed(uniqueWorkflows(WorkflowList(k, f)))
    /\ judged' = [judged EXCEPT ![idx] = "green"]
    /\ result' = result
    /\ idx' = idx + 1
    /\ pc' = "find"
    /\ inflight' = inflight \ {WorkflowRequest(pipelines[idx])}
    /\ UNCHANGED <<env, pipelines, requests, logged>>
    /\ EvalVarsUnchanged

\* the workflows arrive and pass: find returns the element, the revision is returned
WorkflowResponseGreen ==
    /\ pc = "awaitWorkflow"
    /\ \E k \in 0..MaxScanWorkflows : \E f \in WorkflowChoices(k) :
        AllUniquePassed(uniqueWorkflows(WorkflowList(k, f)))
    /\ judged' = [judged EXCEPT ![idx] = "green"]
    /\ result' = revisionOf(FindReturn(pipelines, idx))
    /\ pc' = "done"
    /\ inflight' = inflight \ {WorkflowRequest(pipelines[idx])}
    /\ UNCHANGED <<env, pipelines, idx, requests, logged>>
    /\ EvalVarsUnchanged

\* the workflows arrive and do not pass: the loop moves on
WorkflowResponseNotGreen ==
    /\ pc = "awaitWorkflow"
    /\ \E k \in 0..MaxScanWorkflows : \E f \in WorkflowChoices(k) :
        ~AllUniquePassed(uniqueWorkflows(WorkflowList(k, f)))
    /\ judged' = [judged EXCEPT ![idx] = "notgreen"]
    /\ idx' = idx + 1
    /\ pc' = "find"
    /\ inflight' = inflight \ {WorkflowRequest(pipelines[idx])}
    /\ UNCHANGED <<env, pipelines, requests, result, logged>>
    /\ EvalVarsUnchanged

\* a callback that swallows the rejection and returns false
WorkflowFailureSwallowed ==
    /\ pc = "awaitWorkflow"
    /\ judged' = [judged EXCEPT ![idx] = "threw"]
    /\ idx' = idx + 1
    /\ pc' = "find"
    /\ inflight' = inflight \ {WorkflowRequest(pipelines[idx])}
    /\ UNCHANGED <<env, pipelines, requests, result, logged>>
    /\ EvalVarsUnchanged

\* a callback that issues the rejected request a second time
WorkflowFailureRetried ==
    /\ pc = "awaitWorkflow"
    /\ Cardinality({ k \in DOMAIN requests :
                        requests[k] = WorkflowRequest(pipelines[idx]) }) < 2
    /\ requests' = Append(requests, WorkflowRequest(pipelines[idx]))
    /\ UNCHANGED <<env, pc, pipelines, idx, judged, inflight, result, logged>>
    /\ EvalVarsUnchanged

\* the workflow request rejects, or its body has no items to iterate
WorkflowFailure ==
    /\ pc = "awaitWorkflow"
    /\ judged' = [judged EXCEPT ![idx] = "threw"]
    /\ Caught
    /\ inflight' = inflight \ {WorkflowRequest(pipelines[idx])}
    /\ UNCHANGED <<env, pipelines, idx, requests>>
    /\ EvalVarsUnchanged

Next ==
    \/ StartMissingEnv
    \/ StartNoSlug
    \/ StartRequest
    \/ PipelinesResponse
    \/ PipelinesFailure
    \/ FindExhausted
    \/ CallbackIneligible
    \/ CallbackFetch
    \/ WorkflowResponseGreen
    \/ WorkflowResponseNotGreen
    \/ WorkflowFailure

Spec == Init /\ [][Next]_vars

\* the event loop runs every continuation that is ready, and every request
\* issued settles, with a response or a rejection
LiveSpec == Spec /\ WF_vars(Next)

-----------------------------------------------------------------------------
(* The callback handed to find, called on one pipeline; the deduplication   *)
(* loop advances one workflow per step                                      *)

EvalInit ==
    /\ env \in { e \in Envs : /\ DOMAIN e = EnvNames
                              /\ slugAndBuildNumber(e["CIRCLE_BUILD_URL"]) # <<>> }
    /\ pc = "callback"
    /\ pipelines \in { items \in PipelineLists(1) : Len(items) = 1 }
    /\ idx = 1
    /\ judged = <<"unjudged">>
    /\ requests = <<>>
    /\ inflight = {}
    /\ result = Unsettled
    /\ logged = FALSE
    /\ workflowData = <<>>
    /\ wi = 0
    /\ workflowMap = <<>>
    /\ verdict = FALSE
    /\ api = <<>>

ScanVarsUnchanged == UNCHANGED <<env, pipelines, idx, result, logged, api>>

\* pipeline.state is not created: return false
EvalIneligible ==
    /\ pc = "callback"
    /\ pipelines[idx].state # "created"
    /\ verdict' = FALSE
    /\ judged' = [judged EXCEPT ![idx] = "notgreen"]
    /\ pc' = "returned"
    /\ UNCHANGED <<inflight, requests, workflowData, wi, workflowMap>>
    /\ ScanVarsUnchanged

\* pipeline.state is created: axios.get of its workflows is issued
EvalFetch ==
    /\ pc = "callback"
    /\ pipelines[idx].state = "created"
    /\ requests' = Append(requests, WorkflowRequest(pipelines[idx]))
    /\ pc' = "awaitWorkflow"
    /\ inflight' = inflight \cup {WorkflowRequest(pipelines[idx])}
    /\ UNCHANGED <<judged, workflowData, wi, workflowMap, verdict>>
    /\ ScanVarsUnchanged

\* the workflows arrive: new Map(), the loop starts
EvalWorkflowResponse ==
    /\ pc = "awaitWorkflow"
    /\ \E k \in 0..MaxWorkflows : \E f \in WorkflowChoices(k) :
        workflowData' = WorkflowList(k, f)
    /\ workflowMap' = <<>>
    /\ wi' = 1
    /\ pc' = "dedupe"
    /\ inflight' = inflight \ {WorkflowRequest(pipelines[idx])}
    /\ UNCHANGED <<judged, requests, verdict>>
    /\ ScanVarsUnchanged

\* the workflow request rejects: the callback throws
EvalWorkflowFailure ==
    /\ pc = "awaitWorkflow"
    /\ judged' = [judged EXCEPT ![idx] = "threw"]
    /\ pc' = "threw"
    /\ inflight' = inflight \ {WorkflowRequest(pipelines[idx])}
    /\ UNCHANGED <<requests, workflowData, wi, workflowMap, verdict>>
    /\ ScanVarsUnchanged

\* one iteration of the loop over workflowData.items
EvalDedupeIteration ==
    /\ pc = "dedupe"
    /\ wi <= Len(workflowData)
    /\ workflowMap' = DedupeIteration(workflowMap, workflowData[wi])
    /\ wi' = wi + 1
    /\ UNCHANGED <<inflight, pc, judged, requests, workflowData, verdict>>
    /\ ScanVarsUnchanged

\* the loop is over: filter, compare the lengths, return
EvalCheck ==
    /\ pc = "dedupe"
    /\ wi > Len(workflowData)
    /\ verdict' = AllUniquePassed(workflowMap)
    /\ judged' = [judged EXCEPT ![idx] =
                    IF AllUniquePassed(workflowMap) THEN "green" ELSE "notgreen"]
    /\ pc' = "returned"
    /\ UNCHANGED <<inflight, requests, workflowData, wi, workflowMap>>
    /\ ScanVarsUnchanged

EvalNext ==
    \/ EvalIneligible
    \/ EvalFetch
    \/ EvalWorkflowResponse
    \/ EvalWorkflowFailure
    \/ EvalDedupeIteration
    \/ EvalCheck

EvalSpec == EvalInit /\ [][EvalNext]_vars

\* the workflows arrive with status strings the declared type does not bound
UntypedWorkflowResponse ==
    /\ pc = "awaitWorkflow"
    /\ \E k \in 0..MaxWorkflows : \E f \in UntypedWorkflowChoices(k) :
        workflowData' = WorkflowList(k, f)
    /\ workflowMap' = <<>>
    /\ wi' = 1
    /\ pc' = "dedupe"
    /\ inflight' = inflight \ {WorkflowRequest(pipelines[idx])}
    /\ UNCHANGED <<judged, requests, verdict>>
    /\ ScanVarsUnchanged

UntypedNext ==
    \/ EvalIneligible
    \/ EvalFetch
    \/ UntypedWorkflowResponse
    \/ EvalWorkflowFailure
    \/ EvalDedupeIteration
    \/ EvalCheck

\* the callback, called with responses of any status strings
UntypedSpec == EvalInit /\ [][UntypedNext]_vars

-----------------------------------------------------------------------------
(* Properties of the scan (Spec) *)

\* the pipelines for which a workflow request was issued
WorkflowRequested ==
    { requests[k].id : k \in { j \in DOMAIN requests : requests[j].kind = "workflow" } }

RevisionStrings == { Revisions[i] : i \in DOMAIN Revisions }

\* the invocation returned and neither fetch failed
ScanCompleted == pc = "done" /\ ~logged /\ Len(requests) >= 1

\* C1: when all fetches succeed, the invocation returns the vcs.revision of the
\* first pipeline, in list order, that is in state created and whose workflows
\* pass, every earlier pipeline having been judged not green; it returns
\* undefined exactly when no pipeline of the list is green.
C1_FirstGreenRevision ==
    ScanCompleted =>
        /\ (result = Undefined) <=>
              (\A i \in DOMAIN pipelines : judged[i] = "notgreen")
        /\ result # Undefined =>
              \E k \in DOMAIN pipelines :
                /\ result = pipelines[k].vcs.revision
                /\ pipelines[k].state = "created"
                /\ judged[k] = "green"
                /\ \A j \in 1..(k - 1) : judged[j] = "notgreen"

C1_Witness ==
    /\ ScanCompleted
    /\ Len(pipelines) = 3
    /\ pipelines[1].state = "created" /\ judged[1] = "notgreen"
    /\ pipelines[2].state = "created" /\ judged[2] = "green"
    /\ result = pipelines[2].vcs.revision

\* C4: once a pipeline has been judged green the scan is over: no workflow
\* request exists for any pipeline after it in the list.
C4_ShortCircuit ==
    \A i \in DOMAIN judged :
        judged[i] = "green" =>
            /\ pc = "done"
            /\ \A j \in WorkflowRequested : j <= i

C4_Witness ==
    /\ Len(pipelines) = 3
    /\ pipelines[1].state = "pending"
    /\ pipelines[2].state = "created" /\ judged[2] = "green"
    /\ pipelines[3].state = "created" /\ judged[3] = "unjudged"
    /\ result = pipelines[2].vcs.revision
    /\ WorkflowRequested = {2}

\* C5: a workflow request is only ever issued for a pipeline in state created,
\* and a pipeline in any other state is never judged green.
C5_OnlyCreatedFetched ==
    /\ \A i \in WorkflowRequested : pipelines[i].state = "created"
    /\ \A i \in DOMAIN pipelines :
        pipelines[i].state # "created" => judged[i] \in {"unjudged", "notgreen"}

C5_Witness ==
    /\ pc = "done"
    /\ Len(pipelines) = 3
    /\ pipelines[1].state = "errored" /\ judged[1] = "notgreen"
    /\ pipelines[2].state = "setup" /\ judged[2] = "notgreen"
    /\ pipelines[3].state = "created"
    /\ WorkflowRequested = {3}

\* C6: when the workflow fetch of a pipeline fails, that pipeline is not green,
\* the scan is over with undefined, and no workflow request exists for a later
\* pipeline.
C6_FailureAborts ==
    \A i \in DOMAIN judged :
        judged[i] = "threw" =>
            /\ pc = "done"
            /\ result = Undefined
            /\ \A j \in WorkflowRequested : j <= i
            /\ \A j \in DOMAIN judged : judged[j] # "green"

C6_Witness ==
    /\ Len(pipelines) = 3
    /\ pipelines[1].state = "created" /\ judged[1] = "notgreen"
    /\ pipelines[2].state = "created" /\ judged[2] = "threw"
    /\ pipelines[3].state = "created" /\ judged[3] = "unjudged"
    /\ result = Undefined

\* C7: the invocation never rejects; when it has settled, its value is a
\* revision or undefined, and it is undefined whenever a step failed (the catch
\* block ran) or the configuration gave no slug (no request was issued).
C7_NeverRaises ==
    /\ pc # "rejected"
    /\ pc = "done" => result \in RevisionStrings \cup {Undefined}
    /\ pc # "done" => result = Unsettled
    /\ (pc = "done" /\ (logged \/ requests = <<>>)) => result = Undefined

C7_Witness ==
    /\ pc = "done"
    /\ logged
    /\ Len(requests) = 3
    /\ result = Undefined

-----------------------------------------------------------------------------
(* Properties of the callback and of the deduplication (EvalSpec) *)

\* the callback returned for a pipeline whose workflows were fetched
Evaluated == pc = "returned" /\ pipelines[idx].state = "created"

\* the workflows the deduplication loop has processed so far
Processed ==
    IF pc \in {"dedupe", "returned"} /\ pipelines[idx].state = "created"
    THEN SubSeq(workflowData, 1, wi - 1)
    ELSE <<>>

NamesOf(items) == { items[i].name : i \in DOMAIN items }

\* the ranks as the data model states them; a status outside the table ranks 0
Rank(status) ==
    CASE status = "success" -> 5
      [] status = "on_hold" -> 4
      [] status = "running" -> 3
      [] status = "not_run" -> 2
      [] status \in {"failed", "error", "failing", "canceled"} -> 1
      [] OTHER -> 0

\* C2: a created pipeline whose workflows were fetched is green iff the
\* deduplicated workflows are non-empty and each has status success or on_hold.
C2_GreenIffAllPassed ==
    Evaluated =>
        (verdict <=>
            /\ workflowMap # <<>>
            /\ \A i \in DOMAIN workflowMap :
                workflowMap[i].status \in {"success", "on_hold"})

C2_Witness ==
    /\ Evaluated
    /\ Len(workflowData) = 2
    /\ workflowData[1].name = "build" /\ workflowData[1].status = "success"
    /\ workflowData[2].name = "test" /\ workflowData[2].status = "failed"
    /\ ~verdict

\* C3: the verdict equals the reference verdict on the fetched list: the list
\* is non-empty and every name in it has a workflow with status success or
\* on_hold.
C3_VerdictMatchesReference ==
    Evaluated =>
        (verdict <=>
            /\ workflowData # <<>>
            /\ \A n \in NamesOf(workflowData) :
                \E i \in DOMAIN workflowData :
                    /\ workflowData[i].name = n
                    /\ workflowData[i].status \in {"success", "on_hold"})

C3_Witness ==
    /\ Evaluated
    /\ Len(workflowData) = 2
    /\ workflowData[1].name = "build" /\ workflowData[1].status = "failed"
    /\ workflowData[2].name = "build" /\ workflowData[2].status = "success"
    /\ Len(workflowMap) = 1 /\ workflowMap[1].status = "success"
    /\ verdict

\* C8: the deduplicated workflows hold exactly one entry for each name of the
\* workflows processed, and no two entries share a name.
C8_OneEntryPerName ==
    /\ NamesOf(workflowMap) = NamesOf(Processed)
    /\ \A i, j \in DOMAIN workflowMap :
        workflowMap[i].name = workflowMap[j].name => i = j

C8_Witness ==
    /\ Evaluated
    /\ Len(workflowData) = 3
    /\ workflowData[1].name = "build"
    /\ workflowData[2].name = "test"
    /\ workflowData[3].name = "build"
    /\ Len(workflowMap) = 2

\* C9: the representative of a name is one of the processed workflows of that
\* name and no processed workflow of that name outranks it, whatever the input
\* order; an unauthorized representative means no same-named workflow with any
\* other listed status was processed.
C9_RepresentativeHasMaxRank ==
    \A e \in DOMAIN workflowMap :
        /\ \E i \in DOMAIN Processed : Processed[i] = workflowMap[e]
        /\ \A i \in DOMAIN Processed :
            Processed[i].name = workflowMap[e].name =>
                /\ Rank(workflowMap[e].status) >= Rank(Processed[i].status)
                /\ workflowMap[e].status = "unauthorized" =>
                    Processed[i].status \notin CircleWorkflowStatus \ {"unauthorized"}

C9_Witness ==
    /\ Evaluated
    /\ Len(workflowData) = 3
    /\ \A i \in 1..3 : workflowData[i].name = "build"
    /\ workflowData[1].status = "unauthorized"
    /\ workflowData[2].status = "on_hold"
    /\ workflowData[3].status = "running"
    /\ workflowMap = <<workflowData[2]>>

\* the positions of the processed workflows of a name that have its highest rank
TopRanked(name) ==
    { i \in DOMAIN Processed :
        /\ Processed[i].name = name
        /\ \A j \in DOMAIN Processed :
            Processed[j].name = name =>
                Rank(Processed[i].status) >= Rank(Processed[j].status) }

\* C10: the representative of a name is the earliest processed workflow among
\* those of that name with its highest rank, so a later workflow of equal rank
\* never replaced it.
C10_EarliestOfTopRank ==
    \A e \in DOMAIN workflowMap :
        /\ TopRanked(workflowMap[e].name) # {}
        /\ \A i \in TopRanked(workflowMap[e].name) : workflowMap[e].id <= i
        /\ workflowMap[e].id \in TopRanked(workflowMap[e].name)

C10_Witness ==
    /\ Evaluated
    /\ Len(workflowData) = 3
    /\ \A i \in 1..3 : workflowData[i].name = "build"
    /\ workflowData[1].status = "unauthorized"
    /\ workflowData[2].status = "failed"
    /\ workflowData[3].status = "canceled"
    /\ workflowMap = <<workflowData[2]>>

\* C11: deduplication is idempotent: deduplicating the deduplicated workflows
\* yields the same entries in the same order.
C11_DedupeIdempotent ==
    Evaluated => uniqueWorkflows(workflowMap) = workflowMap

C11_Witness ==
    /\ Evaluated
    /\ Len(workflowData) = 3
    /\ workflowData[1].name = "test" /\ workflowData[1].status = "failed"
    /\ workflowData[2].name = "build" /\ workflowData[2].status = "running"
    /\ workflowData[3].name = "test" /\ workflowData[3].status = "success"
    /\ workflowMap = <<workflowData[3], workflowData[2]>>
    /\ uniqueWorkflows(workflowMap) = workflowMap

-----------------------------------------------------------------------------
(* Properties of the requests (Spec) *)

\* C12: at most one request is in flight; a workflow request exists only once
\* the pipeline request has settled, and every created pipeline before the one
\* it is for has had its workflows fetched and was judged not green; workflow
\* requests are issued in increasing list position.
C12_Sequential ==
    /\ Cardinality(inflight) <= 1
    /\ WorkflowRequested # {} =>
        /\ requests[1] = PipelineRequest
        /\ PipelineRequest \notin inflight
    /\ \A k \in DOMAIN requests :
        requests[k].kind = "workflow" =>
            /\ \A i \in 1..(requests[k].id - 1) :
                /\ judged[i] = "notgreen"
                /\ pipelines[i].state = "created" =>
                    /\ WorkflowRequest(pipelines[i]) \notin inflight
                    /\ i \in WorkflowRequested
            /\ \A l \in DOMAIN requests :
                (l < k /\ requests[l].kind = "workflow") =>
                    requests[l].id < requests[k].id

C12_Witness ==
    /\ pc = "awaitWorkflow"
    /\ Len(pipelines) = 3
    /\ \A i \in 1..3 : pipelines[i].state = "created"
    /\ idx = 3
    /\ inflight = { WorkflowRequest(pipelines[3]) }
    /\ Len(requests) = 4

\* C13: no request is issued twice: the pipeline list is requested at most
\* once and the workflows of a pipeline at most once, also after a failure.
C13_NoRetry ==
    /\ \A k, l \in DOMAIN requests : requests[k] = requests[l] => k = l
    /\ Cardinality({ k \in DOMAIN requests : requests[k].kind = "pipeline" }) <= 1
    /\ Len(requests) <= 1 + Len(pipelines)

C13_Witness ==
    /\ pc = "done"
    /\ judged = <<"notgreen", "threw", "unjudged">>
    /\ \A i \in 1..3 : pipelines[i].state = "created"
    /\ requests = << PipelineRequest, WorkflowRequest(pipelines[1]),
                     WorkflowRequest(pipelines[2]) >>

-----------------------------------------------------------------------------
(* Statuses outside the enum (UntypedSpec) *)

Unlisted(workflow) == workflow.status \notin CircleWorkflowStatus

\* C14: a workflow whose status is outside the enum ranks 0: it never replaced
\* a stored workflow of its name (as representative it is the first of its
\* name), no processed workflow of its name has rank 1 or more (a later one
\* would have replaced it), and a pipeline it represents a name of is not green.
C14_UnlistedRanksZero ==
    \A e \in DOMAIN workflowMap :
        Unlisted(workflowMap[e]) =>
            /\ \A i \in DOMAIN Processed :
                Processed[i].name = workflowMap[e].name =>
                    /\ workflowMap[e].id <= i
                    /\ Rank(Processed[i].status) < 1
            /\ Evaluated => ~verdict

\* C14 holds of unlisted statuses that name no inherited member
C14_OrdinaryUnlistedRanksZero ==
    \A e \in DOMAIN workflowMap :
        (Unlisted(workflowMap[e]) /\ IsNumber(workflowMap[e].status)) =>
            /\ \A i \in DOMAIN Processed :
                Processed[i].name = workflowMap[e].name =>
                    /\ workflowMap[e].id <= i
                    /\ Rank(Processed[i].status) < 1
            /\ Evaluated => ~verdict

-----------------------------------------------------------------------------
(* Two invocations of getLastSuccessfulBuildRevisionOnBranch in one process, *)
(* interleaved at their awaits, against an API that answers a request the   *)
(* same way whoever sends it. Every variable of an invocation is a local of *)
(* the function: the model keeps one copy per invocation.                   *)

Invocations == {"first", "second"}

\* the answer to a workflow request: a rejection, or workflowData.items
RejectedWorkflows == [ok |-> FALSE, items |-> <<>>]

WorkflowAnswers ==
    { RejectedWorkflows,
      [ok |-> TRUE, items |-> <<>>],
      [ok |-> TRUE, items |-> << CircleWorkflowItem(1, "build", "success") >>],
      [ok |-> TRUE, items |-> << CircleWorkflowItem(1, "build", "failed"),
                                 CircleWorkflowItem(2, "build", "success") >>],
      [ok |-> TRUE, items |-> << CircleWorkflowItem(1, "build", "success"),
                                 CircleWorkflowItem(2, "test", "failed") >>] }

\* the API: the answer to the pipeline request and, for each created pipeline,
\* the answer to its workflow request (no other pipeline is ever asked about)
Apis(n) ==
    { [ok |-> FALSE, items |-> <<>>, workflows |-> <<>>] }
    \cup UNION { { [ok |-> TRUE, items |-> items, workflows |-> w] :
                    w \in { v \in [DOMAIN items -> WorkflowAnswers] :
                              \A i \in DOMAIN items :
                                items[i].state # "created" =>
                                    v[i] = RejectedWorkflows } } :
                 items \in PipelineLists(n) }

ConcInit ==
    /\ env \in Envs
    /\ api \in Apis(MaxConcPipelines)
    /\ pc = [i \in Invocations |-> "start"]
    /\ pipelines = [i \in Invocations |-> <<>>]
    /\ idx = [i \in Invocations |-> 0]
    /\ judged = [i \in Invocations |-> <<>>]
    /\ requests = [i \in Invocations |-> <<>>]
    /\ inflight = [i \in Invocations |-> {}]
    /\ result = [i \in Invocations |-> Unsettled]
    /\ logged = [i \in Invocations |-> FALSE]
    /\ workflowData = <<>>
    /\ wi = 0
    /\ workflowMap = <<>>
    /\ verdict = FALSE

\* the catch block of invocation i
ConcCaught(i) ==
    /\ logged' = [logged EXCEPT ![i] = TRUE]
    /\ result' = [result EXCEPT ![i] = Undefined]
    /\ pc' = [pc EXCEPT ![i] = "done"]

ConcStartMissingEnv(i) ==
    /\ pc[i] = "start"
    /\ \/ requireEnvThrows(env, "CIRCLE_BUILD_URL")
       \/ requireEnvThrows(env, "CIRCLE_TOKEN")
    /\ ConcCaught(i)
    /\ UNCHANGED <<env, pipelines, idx, judged, requests, inflight>>
    /\ EvalVarsUnchanged

ConcStartNoSlug(i) ==
    /\ pc[i] = "start"
    /\ ~requireEnvThrows(env, "CIRCLE_BUILD_URL")
    /\ ~requireEnvThrows(env, "CIRCLE_TOKEN")
    /\ slugAndBuildNumber(env["CIRCLE_BUILD_URL"]) = <<>>
    /\ result' = [result EXCEPT ![i] = Undefined]
    /\ pc' = [pc EXCEPT ![i] = "done"]
    /\ UNCHANGED <<env, pipelines, idx, judged, requests, inflight, logged>>
    /\ EvalVarsUnchanged

ConcStartRequest(i) ==
    /\ pc[i] = "start"
    /\ ~requireEnvThrows(env, "CIRCLE_BUILD_URL")
    /\ ~requireEnvThrows(env, "CIRCLE_TOKEN")
    /\ slugAndBuildNumber(env["CIRCLE_BUILD_URL"]) # <<>>
    /\ requests' = [requests EXCEPT ![i] = Append(@, PipelineRequest)]
    /\ inflight' = [inflight EXCEPT ![i] = @ \cup {PipelineRequest}]
    /\ pc' = [pc EXCEPT ![i] = "awaitPipelines"]
    /\ UNCHANGED <<env, pipelines, idx, judged, result, logged>>
    /\ EvalVarsUnchanged

ConcPipelinesResponse(i) ==
    /\ pc[i] = "awaitPipelines"
    /\ api.ok
    /\ pipelines' = [pipelines EXCEPT ![i] = api.items]
    /\ judged' = [judged EXCEPT ![i] = [k \in DOMAIN api.items |-> "unjudged"]]
    /\ idx' = [idx EXCEPT ![i] = 1]
    /\ pc' = [pc EXCEPT ![i] = "find"]
    /\ inflight' = [inflight EXCEPT ![i] = @ \ {PipelineRequest}]
    /\ UNCHANGED <<env, requests, result, logged>>
    /\ EvalVarsUnchanged

ConcPipelinesFailure(i) ==
    /\ pc[i] = "awaitPipelines"
    /\ ~api.ok
    /\ ConcCaught(i)
    /\ inflight' = [inflight EXCEPT ![i] = @ \ {PipelineRequest}]
    /\ UNCHANGED <<env, pipelines, idx, judged, requests>>
    /\ EvalVarsUnchanged

ConcFindExhausted(i) ==
    /\ pc[i] = "find"
    /\ idx[i] > Len(pipelines[i])
    /\ result' = [result EXCEPT ![i] = revisionOf(FindReturn(pipelines[i], 0))]
    /\ pc' = [pc EXCEPT ![i] = "done"]
    /\ UNCHANGED <<env, pipelines, idx, judged, requests, inflight, logged>>
    /\ EvalVarsUnchanged

ConcCallbackIneligible(i) ==
    /\ pc[i] = "find"
    /\ idx[i] <= Len(pipelines[i])
    /\ pipelines[i][idx[i]].state # "created"
    /\ judged' = [judged EXCEPT ![i][idx[i]] = "notgreen"]
    /\ idx' = [idx EXCEPT ![i] = @ + 1]
    /\ UNCHANGED <<env, pc, pipelines, requests, inflight, result, logged>>
    /\ EvalVarsUnchanged

ConcCallbackFetch(i) ==
    /\ pc[i] = "find"
    /\ idx[i] <= Len(pipelines[i])
    /\ pipelines[i][idx[i]].state = "created"
    /\ requests' = [requests EXCEPT
                      ![i] = Append(@, WorkflowRequest(pipelines[i][idx[i]]))]
    /\ inflight' = [inflight EXCEPT
                      ![i] = @ \cup {WorkflowRequest(pipelines[i][idx[i]])}]
    /\ pc' = [pc EXCEPT ![i] = "awaitWorkflow"]
    /\ UNCHANGED <<env, pipelines, idx, judged, result, logged>>
    /\ EvalVarsUnchanged

\* the answer to the workflow request invocation i is waiting for
ConcAnswer(i) == api.workflows[pipelines[i][idx[i]].id]

ConcWorkflowResponseGreen(i) ==
    /\ pc[i] = "awaitWorkflow"
    /\ ConcAnswer(i).ok
    /\ AllUniquePassed(uniqueWorkflows(ConcAnswer(i).items))
    /\ judged' = [judged EXCEPT ![i][idx[i]] = "green"]
    /\ result' = [result EXCEPT ![i] = revisionOf(FindReturn(pipelines[i], idx[i]))]
    /\ pc' = [pc EXCEPT ![i] = "done"]
    /\ inflight' = [inflight EXCEPT
                      ![i] = @ \ {WorkflowRequest(pipelines[i][idx[i]])}]
    /\ UNCHANGED <<env, pipelines, idx, requests, logged>>
    /\ EvalVarsUnchanged

\* a scan position kept in a variable of the module, shared by the invocations
ConcWorkflowResponseNotGreenShared(i) ==
    /\ pc[i] = "awaitWorkflow"
    /\ ConcAnswer(i).ok
    /\ ~AllUniquePassed(uniqueWorkflows(ConcAnswer(i).items))
    /\ judged' = [judged EXCEPT ![i][idx[i]] = "notgreen"]
    /\ idx' = [j \in Invocations |-> IF pc[j] = "start" THEN idx[j] ELSE idx[i] + 1]
    /\ pc' = [pc EXCEPT ![i] = "find"]
    /\ inflight' = [inflight EXCEPT
                      ![i] = @ \ {WorkflowRequest(pipelines[i][idx[i]])}]
    /\ UNCHANGED <<env, pipelines, requests, result, logged>>
    /\ EvalVarsUnchanged

ConcWorkflowResponseNotGreen(i) ==
    /\ pc[i] = "awaitWorkflow"
    /\ ConcAnswer(i).ok
    /\ ~AllUniquePassed(uniqueWorkflows(ConcAnswer(i).items))
    /\ judged' = [judged EXCEPT ![i][idx[i]] = "notgreen"]
    /\ idx' = [idx EXCEPT ![i] = @ + 1]
    /\ pc' = [pc EXCEPT ![i] = "find"]
    /\ inflight' = [inflight EXCEPT
                      ![i] = @ \ {WorkflowRequest(pipelines[i][idx[i]])}]
    /\ UNCHANGED <<env, pipelines, requests, result, logged>>
    /\ EvalVarsUnchanged

ConcWorkflowFailure(i) ==
    /\ pc[i] = "awaitWorkflow"
    /\ ~ConcAnswer(i).ok
    /\ judged' = [judged EXCEPT ![i][idx[i]] = "threw"]
    /\ ConcCaught(i)
    /\ inflight' = [inflight EXCEPT
                      ![i] = @ \ {WorkflowRequest(pipelines[i][idx[i]])}]
    /\ UNCHANGED <<env, pipelines, idx, requests>>
    /\ EvalVarsUnchanged

ConcNext ==
    \E i \in Invocations :
        \/ ConcStartMissingEnv(i)
        \/ ConcStartNoSlug(i)
        \/ ConcStartRequest(i)
        \/ ConcPipelinesResponse(i)
        \/ ConcPipelinesFailure(i)
        \/ ConcFindExhausted(i)
        \/ ConcCallbackIneligible(i)
        \/ ConcCallbackFetch(i)
        \/ ConcWorkflowResponseGreen(i)
        \/ ConcWorkflowResponseNotGreen(i)
        \/ ConcWorkflowFailure(i)

ConcSpec == ConcInit /\ [][ConcNext]_vars

-----------------------------------------------------------------------------
(* Properties of interleaved invocations (ConcSpec) *)

\* what the scan of `items` from position i on returns when nothing interferes
RECURSIVE AloneScan(_, _, _)
AloneScan(items, answers, i) ==
    IF i > Len(items) THEN Undefined
    ELSE IF items[i].state # "created" THEN AloneScan(items, answers, i + 1)
    ELSE IF ~answers[i].ok THEN Undefined
    ELSE IF /\ answers[i].items # <<>>
            /\ \A n \in NamesOf(answers[i].items) :
                \E k \in DOMAIN answers[i].items :
                    /\ answers[i].items[k].name = n
                    /\ answers[i].items[k].status \in {"success", "on_hold"}
         THEN items[i].vcs.revision
         ELSE AloneScan(items, answers, i + 1)

\* what an invocation returns when it runs alone against the API
AloneResult ==
    IF \/ EnvNames # DOMAIN env
       \/ ~api.ok
    THEN Undefined
    ELSE IF Head(env["CIRCLE_BUILD_URL"]) # "circleci.com"
            \/ Len(env["CIRCLE_BUILD_URL"]) < 5
         THEN Undefined
         ELSE AloneScan(api.items, api.workflows, 1)

\* C15: an invocation interleaved with another returns what it returns alone
\* against the same API answers, and what it has read (its pipeline list, its
\* scan position, its verdicts) is what it wrote itself.
C15_Independent ==
    \A i \in Invocations :
        /\ pc[i] = "done" => result[i] = AloneResult
        /\ pc[i] \in {"find", "awaitWorkflow"} =>
            /\ pipelines[i] = api.items
            /\ idx[i] = 1 + Cardinality({ k \in DOMAIN judged[i] :
                                            judged[i][k] # "unjudged" })
            /\ \A k \in DOMAIN judged[i] : judged[i][k] # "unjudged" <=> k < idx[i]

C15_Witness ==
    /\ Len(api.items) = 2
    /\ pc["first"] = "done" /\ result["first"] = api.items[2].vcs.revision
    /\ pc["second"] = "awaitWorkflow" /\ idx["second"] = 1
    /\ judged["first"] = <<"notgreen", "green">>

-----------------------------------------------------------------------------
(* Termination (LiveSpec) *)

\* C16: when every request settles, the invocation eventually returns, and it
\* has then issued at most 1 + N requests for a list of N pipelines; as long as
\* a request stays in flight the invocation does not return and issues no
\* other request.
C16_Terminates ==
    /\ <>(pc = "done")
    /\ [](pc = "done" => Len(requests) <= 1 + Len(pipelines))
    /\ [][(inflight # {} /\ inflight \subseteq inflight') =>
            (pc' # "done" /\ requests' = requests)]_vars

C16_Witness ==
    /\ pc = "done"
    /\ Len(pipelines) = 3
    /\ Len(requests) = 1 + Len(pipelines)
    /\ inflight = {}
    /\ result = Undefined
    /\ ~logged

-----------------------------------------------------------------------------
(* Order of the workflow list (EvalSpec) *)

\* the fetched workflows in the order the permutation p gives
Permuted(p) == [i \in DOMAIN workflowData |-> workflowData[p[i]]]

\* C17: the verdict does not depend on the order of the workflow list: every
\* permutation of the fetched list gives the verdict the callback returned.
C17_VerdictOrderIndependent ==
    Evaluated =>
        \A p \in Permutations(DOMAIN workflowData) :
            AllUniquePassed(uniqueWorkflows(Permuted(p))) = verdict

C17_Witness ==
    /\ Evaluated
    /\ Len(workflowData) = 3
    /\ workflowData[1].name = "build" /\ workflowData[1].status = "failed"
    /\ workflowData[2].name = "test" /\ workflowData[2].status = "on_hold"
    /\ workflowData[3].name = "build" /\ workflowData[3].status = "success"
    /\ verdict
    /\ \E p \in Permutations(DOMAIN workflowData) :
        /\ uniqueWorkflows(Permuted(p)) # workflowMap
        /\ AllUniquePassed(uniqueWorkflows(Permuted(p)))

-----------------------------------------------------------------------------
(* Configuration (Spec) *)

\* the build URL is https://circleci.com/{project_slug}/{build_number} with a
\* project slug of three parts
SlugDerivable(buildUrl) ==
    /\ buildUrl[1] = "circleci.com"
    /\ \E provider, org, repo, build \in 2..Len(buildUrl) :
        provider < org /\ org < repo /\ repo < build

ConfigAvailable ==
    /\ "CIRCLE_BUILD_URL" \in DOMAIN env
    /\ "CIRCLE_TOKEN" \in DOMAIN env
    /\ SlugDerivable(env["CIRCLE_BUILD_URL"])

\* C18: when the slug cannot be derived from the build URL, or the build URL
\* or the token is missing, no HTTP request is ever issued and the invocation
\* returns undefined; the first request, the pipeline list, is issued only
\* with the slug and the token both available.
C18_NoRequestWithoutConfig ==
    /\ ~ConfigAvailable =>
        /\ requests = <<>>
        /\ inflight = {}
        /\ pc \in {"start", "done"}
        /\ pc = "done" => result = Undefined
    /\ requests # <<>> =>
        /\ requests[1] = PipelineRequest
        /\ ConfigAvailable

C18_Witness ==
    /\ pc = "done"
    /\ DOMAIN env = EnvNames
    /\ env["CIRCLE_BUILD_URL"] = <<"circleci.com", "gh", "org", "42">>
    /\ requests = <<>>
    /\ result = Undefined
    /\ ~logged

====
